---- MODULE Spec2Model ----
(***************************************************************************)
(* A model of ietf/utils/validators.py: the field-level and upload         *)
(* validators of the datatracker.  Every validator is an action that       *)
(* takes its arguments from bounded sets, runs the whole function body and *)
(* records in `call` how the call ended: normally (with its return value)  *)
(* or by raising ValidationError (with its message).  `request` holds the  *)
(* arguments the caller passes, `file` the uploaded file handle the file   *)
(* validators work on, and `magic` what the MIME sniffer answers for the   *)
(* file's bytes.                                                           *)
(*                                                                         *)
(* Text is modelled as sequences: a str as a sequence of character codes   *)
(* or of one-character strings, a URL or e-mail value as a sequence of     *)
(* lexical tokens, a file's bytes as a sequence of content tokens.  A      *)
(* message is the sequence of the parts its format string joins.           *)
(***************************************************************************)
EXTENDS Integers, Sequences, FiniteSets, TLC

VARIABLES file, SECR_MAX_UPLOAD_SIZE, magic, request, call

vars == <<file, SECR_MAX_UPLOAD_SIZE, magic, request, call>>

(***************************************************************************)
(* Bounds of the model.                                                    *)
(***************************************************************************)
MaxStrLen == 3

(***************************************************************************)
(* Generic helpers.                                                        *)
(***************************************************************************)
\* all sequences over S of length at most n
SeqUpTo(S, n) == UNION {[1..k -> S] : k \in 0..n}

\* s[from..to] as a sequence (empty when from > to)
Slice(s, from, to) == [i \in 1..(to - from + 1) |-> s[from + i - 1]]

\* how a call ended
Passed(ret) == [raised |-> "", message |-> <<>>, ret |-> ret]

ValidationError(message) ==
    [raised |-> "ValidationError", message |-> message, ret |-> <<>>]

\* a Python exception that is not a ValidationError
OtherError(kind) == [raised |-> kind, message |-> <<>>, ret |-> <<>>]

None == <<>>

Called(op, args, outcome) ==
    [op |-> op, args |-> args, raised |-> outcome.raised,
     message |-> outcome.message, ret |-> outcome.ret]

NoCall == Called("none", <<>>, Passed(None))

\* a call the caller is about to make
Request(op, args) == [op |-> op, args |-> args]

\* what the MIME sniffer answers when no upload is involved
NoMagic == <<>>

\* the handle when no upload is involved
NoFile == [name |-> <<>>, content |-> <<>>, _size |-> 0, pos |-> 0, closed |-> FALSE]

(***************************************************************************)
(* validate_no_control_chars = RegexValidator(regex="^[^\x00-\x1f]*$")     *)
(* A str is a sequence of character codes.                                 *)
(***************************************************************************)
\* the codes the checked strings are built from: NUL, TAB, LF, US, space, 'A'
ControlCharCodes == {0, 9, 10, 31, 32, 65}

ControlStrings == SeqUpTo(ControlCharCodes, MaxStrLen)

\* the character class [^\x00-\x1f]
NotControlClass(c) == ~(c >= 0 /\ c <= 31)

\* the positions at which [^\x00-\x1f]* can stop when started at 0: the
\* star is greedy but backtracks, so every prefix of the longest run
ControlStarEnds(s) == {k \in 0..Len(s) : \A i \in 1..k : NotControlClass(s[i])}

\* Python's $ (no MULTILINE): at the end of the string, or just before a
\* newline that is the last character
DollarMatches(s, k) == k = Len(s) \/ (k = Len(s) - 1 /\ s[Len(s)] = 10)

\* re.search of ^[^\x00-\x1f]*$ : ^ anchors the match at position 0
control_regex_search(s) == \E k \in ControlStarEnds(s) : DollarMatches(s, k)

ControlCharsMessage == <<"Please enter a string without control characters.">>

\* RegexValidator.__call__ with inverse_match False: invalid when no match
validate_no_control_chars_result(value) ==
    IF ~control_regex_search(value)
    THEN ValidationError(ControlCharsMessage)
    ELSE Passed(None)

validate_no_control_chars ==
    /\ call.op = "none"
    /\ request.op = "validate_no_control_chars"
    /\ call' = Called(request.op, request.args,
                      validate_no_control_chars_result(request.args.value))
    /\ UNCHANGED <<file, SECR_MAX_UPLOAD_SIZE, magic, request>>

InitControl ==
    /\ file = NoFile
    /\ SECR_MAX_UPLOAD_SIZE = 0
    /\ magic = NoMagic
    /\ request \in {Request("validate_no_control_chars", [value |-> v]) :
                        v \in ControlStrings}
    /\ call = NoCall

NextControl == validate_no_control_chars

SpecControl == InitControl /\ [][NextControl]_vars

HasControlChar(s) == \E i \in 1..Len(s) : s[i] < 32

\* C1: validate_no_control_chars fails with the control-characters message
\* for every string holding a character below 0x20 (a lone trailing newline
\* included) and passes for every string holding none.
C1_ControlCharsRejected ==
    call.op = "validate_no_control_chars" =>
        IF HasControlChar(call.args.value)
        THEN call.raised = "ValidationError" /\ call.message = ControlCharsMessage
        ELSE call.raised = ""

(***************************************************************************)
(* RegexStringValidator.  A str is a sequence of one-character strings.    *)
(***************************************************************************)
\* the characters the checked regular expressions are built from
RegexChars == {"a", "-", "*", "(", ")"}

RegexStrings == SeqUpTo(RegexChars, MaxStrLen)

\* `sub in s` of Python: sub is a contiguous part of s
Contains(s, sub) ==
    \E i \in 1..(Len(s) - Len(sub) + 1) : Slice(s, i, i + Len(sub) - 1) = sub

\* re.compile over RegexChars, as sre_parse scans the pattern: `open` holds
\* the 0-based positions of the groups not yet closed, `last` is what the
\* previous item was.  The result is the error re.error carries (its text
\* and position), or <<>> when the pattern compiles.
RECURSIVE re_compile_scan(_, _, _, _)
re_compile_scan(s, i, open, last) ==
    IF i > Len(s)
    THEN IF open /= <<>>
         THEN <<"missing ), unterminated subpattern", open[Len(open)]>>
         ELSE <<>>
    ELSE CASE s[i] = "(" -> re_compile_scan(s, i + 1, Append(open, i - 1), "open")
           [] s[i] = ")" ->
                IF open = <<>>
                THEN <<"unbalanced parenthesis", i - 1>>
                ELSE re_compile_scan(s, i + 1, SubSeq(open, 1, Len(open) - 1), "item")
           [] s[i] = "*" ->
                IF last = "repeat" THEN <<"multiple repeat", i - 1>>
                ELSE IF last /= "item" THEN <<"nothing to repeat", i - 1>>
                ELSE re_compile_scan(s, i + 1, open, "repeat")
           [] OTHER -> re_compile_scan(s, i + 1, open, "item")

re_compile(value) == re_compile_scan(value, 1, <<>>, "open")

DashStar == <<"-", "*">>

InvalidRegexText ==
    "Please enter a valid regular expression.  Got an error when trying to compile this: "

InvalidRegexMessage(value, e) == <<InvalidRegexText, value, e>>

DidYouMeanMessage ==
    <<"Did you really mean that?  The regular expression contains -* which will match zero or more dashes.  Maybe you meant to write -.*?  If you actually meant -*, you can use [-]* instead to get past this error.">>

\* a plausible slip: the "-*" heuristic tested before the compilation
RegexStringValidator_call_dash_first(value) ==
    IF Contains(value, DashStar)
    THEN ValidationError(DidYouMeanMessage)
    ELSE IF re_compile(value) /= <<>>
    THEN ValidationError(InvalidRegexMessage(value, re_compile(value)))
    ELSE Passed(None)

\* RegexStringValidator.__call__
RegexStringValidator_call_result(value) ==
    IF re_compile(value) /= <<>>
    THEN ValidationError(InvalidRegexMessage(value, re_compile(value)))
    ELSE IF Contains(value, DashStar)
    THEN ValidationError(DidYouMeanMessage)
    ELSE Passed(None)

RegexStringValidator_call ==
    /\ call.op = "none"
    /\ request.op = "RegexStringValidator.__call__"
    /\ call' = Called(request.op, request.args,
                      RegexStringValidator_call_result(request.args.value))
    /\ UNCHANGED <<file, SECR_MAX_UPLOAD_SIZE, magic, request>>

(***************************************************************************)
(* RegexStringValidator.__eq__ and __ne__.  An object is an identity and a *)
(* class; isinstance looks the class up in the object's class and bases.   *)
(***************************************************************************)
MaxObjects == 3

Classes == {"RegexStringValidator", "RegexValidator", "str", "NoneType"}

Objects == [id : 1..MaxObjects, cls : Classes]

RegexStringValidators == {o \in Objects : o.cls = "RegexStringValidator"}

\* the classes of this model all derive from object alone
Bases(cls) == {cls, "object"}

isinstance(obj, cls) == cls \in Bases(obj.cls)

\* a plausible slip: equality by identity, as object.__eq__ gives it
RegexStringValidator_eq_identity(self, other) == self.id = other.id /\ self.cls = other.cls

\* RegexStringValidator.__eq__
RegexStringValidator_eq(self, other) == isinstance(other, "RegexStringValidator")

\* RegexStringValidator.__ne__: `self == other` with a RegexStringValidator
\* on the left runs its __eq__, which never answers NotImplemented
RegexStringValidator_ne(self, other) == ~RegexStringValidator_eq(self, other)

eq_call ==
    /\ call.op = "none"
    /\ request.op = "RegexStringValidator.__eq__"
    /\ call' = Called(request.op, request.args,
                      Passed(RegexStringValidator_eq(request.args.self, request.args.other)))
    /\ UNCHANGED <<file, SECR_MAX_UPLOAD_SIZE, magic, request>>

ne_call ==
    /\ call.op = "none"
    /\ request.op = "RegexStringValidator.__ne__"
    /\ call' = Called(request.op, request.args,
                      Passed(RegexStringValidator_ne(request.args.self, request.args.other)))
    /\ UNCHANGED <<file, SECR_MAX_UPLOAD_SIZE, magic, request>>

InitRegex ==
    /\ file = NoFile
    /\ SECR_MAX_UPLOAD_SIZE = 0
    /\ magic = NoMagic
    /\ request \in
         {Request("RegexStringValidator.__call__", [value |-> v]) : v \in RegexStrings}
         \cup {Request(op, [self |-> a, other |-> b]) :
                 op \in {"RegexStringValidator.__eq__", "RegexStringValidator.__ne__"},
                 a \in RegexStringValidators, b \in Objects}
    /\ call = NoCall

NextRegex ==
    \/ RegexStringValidator_call
    \/ eq_call
    \/ ne_call

SpecRegex == InitRegex /\ [][NextRegex]_vars

\* C6: RegexStringValidator.__call__ fails with the "valid regular
\* expression" error when the value does not compile (also when it holds
\* "-*"), fails with the "Did you really mean that?" error when it compiles
\* and holds "-*", and passes when it compiles and does not hold "-*".
C6_RegexStringOutcome ==
    call.op = "RegexStringValidator.__call__" =>
        LET value == call.args.value IN
        CASE re_compile(value) /= <<>> ->
                /\ call.raised = "ValidationError"
                /\ call.message[1] = InvalidRegexText
                /\ call.message[2] = value
          [] re_compile(value) = <<>> /\ Contains(value, DashStar) ->
                /\ call.raised = "ValidationError"
                /\ call.message = DidYouMeanMessage
          [] OTHER -> call.raised = ""

\* C6 witness: a value that holds "-*" and does not compile was rejected
\* with the compilation error
C6_Witness ==
    /\ call.op = "RegexStringValidator.__call__"
    /\ Contains(call.args.value, DashStar)
    /\ re_compile(call.args.value) /= <<>>
    /\ call.raised = "ValidationError"
    /\ call.message[1] = InvalidRegexText

\* C9: a RegexStringValidator equals every RegexStringValidator and no
\* object of another class, and != is the negation of == on every pair.
C9_RegexStringValidatorEquality ==
    /\ call.op = "RegexStringValidator.__eq__" =>
           call.ret = (call.args.other.cls = "RegexStringValidator")
    /\ call.op = "RegexStringValidator.__ne__" =>
           call.ret = (call.args.other.cls /= "RegexStringValidator")
    /\ \A a \in RegexStringValidators, b \in Objects :
           RegexStringValidator_ne(a, b) = ~RegexStringValidator_eq(a, b)

\* C9 witness: two distinct RegexStringValidator instances compared equal
C9_Witness ==
    /\ call.op = "RegexStringValidator.__eq__"
    /\ call.args.other.cls = "RegexStringValidator"
    /\ call.args.other.id /= call.args.self.id
    /\ call.ret = TRUE

(***************************************************************************)
(* validate_external_resource_value.  A value is a sequence of lexical     *)
(* tokens; the str it stands for is their concatenation.  URLValidator,    *)
(* EmailValidator and urlparse are modelled by what they do to such a str. *)
(***************************************************************************)
MaxUrlLen == 4

\* scheme words, the scheme separator, host names, a port, a user part
\* ending in "@", a path
WordTokens == {"https", "ftp"}

DomainTokens == {"github.com", "GitHub.com", "gitlab.com"}

SchemeSeparator == "://"

PortToken == ":443"

UserToken == "u@"

PathToken == "/x"

ValueTokens ==
    WordTokens \cup DomainTokens \cup {SchemeSeparator, PortToken, UserToken, PathToken}

ResourceValues == SeqUpTo(ValueTokens, MaxUrlLen)

\* str.lower(), token by token
lower_token(t) == IF t = "GitHub.com" THEN "github.com" ELSE t

lower(s) == [i \in 1..Len(s) |-> lower_token(s[i])]

\* letters, digits and dots only: what a host name or a user name is made of
IsNameText(s) == \A i \in 1..Len(s) : s[i] \in WordTokens \cup DomainTokens

\* URLValidator.host_re and EmailValidator.domain_regex: dot-separated
\* labels ending in a top-level label, so at least one dot
IsHostText(s) == s /= <<>> /\ IsNameText(s) /\ \E i \in 1..Len(s) : s[i] \in DomainTokens

\* URLValidator's user:pass authentication  [^\s:@/]+(?::[^\s:@/]*)?@
IsUserInfoText(s) ==
    /\ s /= <<>>
    /\ s[Len(s)] = UserToken
    /\ LET b == SubSeq(s, 1, Len(s) - 1) IN
       \/ IsNameText(b)
       \/ \E i \in 2..Len(b) :
              /\ b[i] = PortToken
              /\ IsNameText(SubSeq(b, 1, i - 1))
              /\ IsNameText(SubSeq(b, i + 1, Len(b)))

\* host with an optional port  (?::\d{2,5})?
IsHostPortText(s) ==
    \/ IsHostText(s)
    \/ Len(s) > 1 /\ s[Len(s)] = PortToken /\ IsHostText(SubSeq(s, 1, Len(s) - 1))

\* optional user:pass@, host, optional port
IsAuthorityText(s) ==
    \E i \in 0..Len(s) :
        /\ i = 0 \/ IsUserInfoText(SubSeq(s, 1, i))
        /\ IsHostPortText(SubSeq(s, i + 1, Len(s)))

\* the index of the first token at or after `from` that begins with "/",
\* or Len(s) + 1 when there is none
FirstPathIndex(s, from) ==
    IF \E i \in from..Len(s) : s[i] = PathToken
    THEN CHOOSE i \in from..Len(s) :
             s[i] = PathToken /\ \A j \in from..(i - 1) : s[j] /= PathToken
    ELSE Len(s) + 1

\* urlparse(value).netloc of a value that begins scheme "://": the text
\* after "//" up to the first "/"
netloc(value) == SubSeq(value, 3, FirstPathIndex(value, 3) - 1)

\* urlparse(value).hostname's cut of a netloc: after the last "@", without the port
HostOfNetloc(n) ==
    LET users == {i \in 1..Len(n) : n[i] = UserToken}
        start == IF users = {} THEN 1
                 ELSE 1 + CHOOSE i \in users : \A j \in users : j <= i
        rest  == SubSeq(n, start, Len(n))
    IN IF rest /= <<>> /\ rest[Len(rest)] = PortToken
       THEN SubSeq(rest, 1, Len(rest) - 1)
       ELSE rest

\* URLValidator.__call__: value.split('://')[0].lower() must be one of the
\* schemes, then the URL regex must match the whole value
URLValidator_accepts(schemes, value) ==
    /\ Len(value) >= 2
    /\ value[1] \in schemes
    /\ value[2] = SchemeSeparator
    /\ IsAuthorityText(netloc(value))

\* URLValidator.schemes and URLValidator(schemes=['http','https'])
DefaultSchemes == {"http", "https", "ftp", "ftps"}

HttpSchemes == {"http", "https"}

EnterValidURL == <<"Enter a valid URL.">>

EnterValidEmail == <<"Enter a valid email address.">>

validate_url(value) ==
    IF URLValidator_accepts(DefaultSchemes, value)
    THEN Passed(None) ELSE ValidationError(EnterValidURL)

validate_http_url(value) ==
    IF URLValidator_accepts(HttpSchemes, value)
    THEN Passed(None) ELSE ValidationError(EnterValidURL)

\* EmailValidator.__call__: split at the last "@"; the user part is a
\* dot-atom (which may hold "/"), the domain part a host name
EmailValidator_accepts(value) ==
    LET users == {i \in 1..Len(value) : value[i] = UserToken} IN
    /\ users /= {}
    /\ LET at == CHOOSE i \in users : \A j \in users : j <= i IN
       /\ \A i \in 1..(at - 1) :
              value[i] \in WordTokens \cup DomainTokens \cup {PathToken}
       /\ IsHostText(SubSeq(value, at + 1, Len(value)))

validate_email(value) ==
    IF EmailValidator_accepts(value)
    THEN Passed(None) ELSE ValidationError(EnterValidEmail)

\* a resource name: its slug and its type's slug and name
ResourceTypes ==
    { [slug |-> "url", name |-> "URL"],
      [slug |-> "email", name |-> "Email"],
      [slug |-> "string", name |-> "String"],
      [slug |-> "bogus", name |-> "Bogus Type"] }

ResourceSlugs == {"github_org", "github_repo", "jabber_room", "webpage"}

ResourceNames == [slug : ResourceSlugs, type : ResourceTypes]

GithubMessage == <<"URL must be a github url">>

UnknownTypeMessage(name) == <<"Unknown resource type ", name.type.name>>

\* a plausible slip: the netloc compared without lower-casing it
validate_external_resource_value_no_lower(name, value) ==
    IF name.type.slug = "url"
    THEN IF name.slug \in {"github_org", "github_repo"}
         THEN IF validate_http_url(value).raised /= ""
              THEN validate_http_url(value)
              ELSE IF netloc(value) /= <<"github.com">>
                   THEN ValidationError(GithubMessage)
                   ELSE Passed(None)
         ELSE IF name.slug = "jabber_room"
         THEN Passed(None)
         ELSE validate_url(value)
    ELSE IF name.type.slug = "email"
    THEN validate_email(value)
    ELSE IF name.type.slug = "string"
    THEN Passed(None)
    ELSE ValidationError(UnknownTypeMessage(name))

\* a plausible slip: no final else, an unknown type falls through
validate_external_resource_value_no_else(name, value) ==
    IF name.type.slug = "url"
    THEN IF name.slug \in {"github_org", "github_repo"}
         THEN IF validate_http_url(value).raised /= ""
              THEN validate_http_url(value)
              ELSE IF lower(netloc(value)) /= <<"github.com">>
                   THEN ValidationError(GithubMessage)
                   ELSE Passed(None)
         ELSE IF name.slug = "jabber_room"
         THEN Passed(None)
         ELSE validate_url(value)
    ELSE IF name.type.slug = "email"
    THEN validate_email(value)
    ELSE Passed(None)

\* a plausible slip: no jabber_room branch, the value goes to validate_url
validate_external_resource_value_no_jabber(name, value) ==
    IF name.type.slug = "url"
    THEN IF name.slug \in {"github_org", "github_repo"}
         THEN IF validate_http_url(value).raised /= ""
              THEN validate_http_url(value)
              ELSE IF lower(netloc(value)) /= <<"github.com">>
                   THEN ValidationError(GithubMessage)
                   ELSE Passed(None)
         ELSE validate_url(value)
    ELSE IF name.type.slug = "email"
    THEN validate_email(value)
    ELSE IF name.type.slug = "string"
    THEN Passed(None)
    ELSE ValidationError(UnknownTypeMessage(name))

\* validate_external_resource_value
validate_external_resource_value_result(name, value) ==
    IF name.type.slug = "url"
    THEN IF name.slug \in {"github_org", "github_repo"}
         THEN IF validate_http_url(value).raised /= ""
              THEN validate_http_url(value)
              ELSE IF lower(netloc(value)) /= <<"github.com">>
                   THEN ValidationError(GithubMessage)
                   ELSE Passed(None)
         ELSE IF name.slug = "jabber_room"
         THEN Passed(None)
         ELSE validate_url(value)
    ELSE IF name.type.slug = "email"
    THEN validate_email(value)
    ELSE IF name.type.slug = "string"
    THEN Passed(None)
    ELSE ValidationError(UnknownTypeMessage(name))

validate_external_resource_value ==
    /\ call.op = "none"
    /\ request.op = "validate_external_resource_value"
    /\ call' = Called(request.op, request.args,
                      validate_external_resource_value_result(request.args.name,
                                                              request.args.value))
    /\ UNCHANGED <<file, SECR_MAX_UPLOAD_SIZE, magic, request>>

InitResource ==
    /\ file = NoFile
    /\ SECR_MAX_UPLOAD_SIZE = 0
    /\ magic = NoMagic
    /\ \E n \in ResourceNames, v \in ResourceValues :
           request = Request("validate_external_resource_value",
                             [name |-> n, value |-> v])
    /\ call = NoCall

NextResource == validate_external_resource_value

SpecResource == InitResource /\ [][NextResource]_vars

IsGithubName(name) ==
    name.type.slug = "url" /\ name.slug \in {"github_org", "github_repo"}

\* C4 as stated: a github resource passes exactly when the value is a valid
\* http/https URL whose host, case-insensitively, is github.com, and every
\* failure carries 'URL must be a github url'.
C4_GithubHostAndMessage ==
    (call.op = "validate_external_resource_value" /\ IsGithubName(call.args.name)) =>
        LET value == call.args.value IN
        /\ call.raised = "" <=>
               /\ URLValidator_accepts(HttpSchemes, value)
               /\ lower(HostOfNetloc(netloc(value))) = <<"github.com">>
        /\ call.raised /= "" =>
               call.raised = "ValidationError" /\ call.message = GithubMessage

\* C4 amended: a github resource passes exactly when the value is a valid
\* http/https URL whose whole netloc (user info, host and port), lower-cased,
\* is github.com; a valid URL with another netloc fails with 'URL must be a
\* github url'; a value that is no valid http/https URL fails with the URL
\* validator's own message.
C4_GithubNetloc ==
    (call.op = "validate_external_resource_value" /\ IsGithubName(call.args.name)) =>
        LET value == call.args.value
            valid == URLValidator_accepts(HttpSchemes, value)
        IN
        /\ call.raised = "" <=> (valid /\ lower(netloc(value)) = <<"github.com">>)
        /\ (valid /\ lower(netloc(value)) /= <<"github.com">>) =>
               call.raised = "ValidationError" /\ call.message = GithubMessage
        /\ ~valid =>
               call.raised = "ValidationError" /\ call.message = EnterValidURL

\* C4 witness: a valid https URL on host GitHub.com passed, written in
\* another case than the one the code compares with
C4_Witness ==
    /\ call.op = "validate_external_resource_value"
    /\ IsGithubName(call.args.name)
    /\ URLValidator_accepts(HttpSchemes, call.args.value)
    /\ netloc(call.args.value) = <<"GitHub.com">>
    /\ call.raised = ""

IsKnownType(name) == name.type.slug \in {"url", "email", "string"}

\* C5 as stated: a name of an unknown type fails with a message that names
\* the type's slug.
C5_UnknownTypeNamesSlug ==
    (call.op = "validate_external_resource_value" /\ ~IsKnownType(call.args.name)) =>
        /\ call.raised = "ValidationError"
        /\ \E i \in 1..Len(call.message) : call.message[i] = call.args.name.type.slug

\* C5 amended: a name of an unknown type fails, for every value and slug,
\* with the message 'Unknown resource type ' followed by the type's name.
C5_UnknownTypeNamesName ==
    (call.op = "validate_external_resource_value" /\ ~IsKnownType(call.args.name)) =>
        /\ call.raised = "ValidationError"
        /\ call.message = <<"Unknown resource type ", call.args.name.type.name>>

\* C5 witness: a value of type bogus was rejected
C5_Witness ==
    /\ call.op = "validate_external_resource_value"
    /\ call.args.name.type.slug = "bogus"
    /\ call.args.value /= <<>>
    /\ call.raised = "ValidationError"

\* C8: the value of a name of type string, and of a name of type url with
\* slug jabber_room, passes whatever it is.
C8_NoOpBranches ==
    (/\ call.op = "validate_external_resource_value"
     /\ \/ call.args.name.type.slug = "string"
        \/ call.args.name.type.slug = "url" /\ call.args.name.slug = "jabber_room") =>
        call.raised = "" /\ call.ret = None

\* C8 witness: the empty string passed as a jabber_room URL
C8_Witness ==
    /\ call.op = "validate_external_resource_value"
    /\ call.args.name.type.slug = "url"
    /\ call.args.name.slug = "jabber_room"
    /\ call.args.value = <<>>
    /\ call.raised = ""

(***************************************************************************)
(* The uploaded file handle.  `content` is the sequence of the tokens the  *)
(* bytes are made of, `pos` the read position in it, `name` a sequence of  *)
(* one-character strings.                                                  *)
(***************************************************************************)
\* file.open() of an uploaded file: rewinds an open handle, and cannot
\* reopen a closed one
file_open(f) ==
    IF f.closed
    THEN [error |-> "ValueError", file |-> f]
    ELSE [error |-> "", file |-> [f EXCEPT !.pos = 0]]

\* file.read(): everything from the read position on, which moves to the end
file_read(f) ==
    [data |-> SubSeq(f.content, f.pos + 1, Len(f.content)),
     file |-> [f EXCEPT !.pos = Len(f.content)]]

(***************************************************************************)
(* validate_file_size                                                      *)
(***************************************************************************)
MaxSizeSteps == 3

\* sizes in bytes on both sides of the byte / KB border of filesizeformat
Sizes == {q * 512 + r : q \in 0..MaxSizeSteps, r \in {0, 1}}

\* round(bytes / unit, 1) in tenths: the quotient is exact in binary, so
\* Python rounds a tie to the even tenth
RoundTenths(bytes, unit) ==
    LET t == (bytes * 10) \div unit
        r == (bytes * 10) % unit
    IN IF 2 * r > unit THEN t + 1
       ELSE IF 2 * r = unit THEN t + (t % 2)
       ELSE t

\* django.template.defaultfilters.filesizeformat: the number (whole bytes,
\* or tenths of the unit) and the unit
filesizeformat(bytes) ==
    IF bytes < 1024
    THEN <<bytes, IF bytes = 1 THEN "byte" ELSE "bytes">>
    ELSE IF bytes < 1024 * 1024
    THEN <<RoundTenths(bytes, 1024), "tenths KB">>
    ELSE IF bytes < 1024 * 1024 * 1024
    THEN <<RoundTenths(bytes, 1024 * 1024), "tenths MB">>
    ELSE <<RoundTenths(bytes, 1024 * 1024 * 1024), "tenths GB">>

FileSizeMessage(max, size) ==
    <<"Please keep filesize under ", filesizeformat(max),
      ". Requested upload size was ", filesizeformat(size)>>

\* a plausible slip: >= where the code has >
validate_file_size_strict(f, max) ==
    IF f._size >= max
    THEN ValidationError(FileSizeMessage(max, f._size))
    ELSE Passed(None)

validate_file_size_result(f, max) ==
    IF f._size > max
    THEN ValidationError(FileSizeMessage(max, f._size))
    ELSE Passed(None)

validate_file_size ==
    /\ request' = Request("validate_file_size", <<>>)
    /\ call' = Called("validate_file_size",
                      [_size |-> file._size, max |-> SECR_MAX_UPLOAD_SIZE],
                      validate_file_size_result(file, SECR_MAX_UPLOAD_SIZE))
    /\ UNCHANGED <<file, SECR_MAX_UPLOAD_SIZE, magic>>

InitSize ==
    /\ file \in [name : {<<>>}, content : {<<>>}, _size : Sizes, pos : {0},
                 closed : {FALSE}]
    /\ SECR_MAX_UPLOAD_SIZE \in Sizes
    /\ magic = NoMagic
    /\ request = Request("validate_file_size", <<>>)
    /\ call = NoCall

NextSize == call.op = "none" /\ validate_file_size

SpecSize == InitSize /\ [][NextSize]_vars

\* C10: validate_file_size passes exactly when the file's size is at most
\* settings.SECR_MAX_UPLOAD_SIZE, and a failure carries one message that
\* renders both the maximum and the size.
C10_FileSizeLimit ==
    call.op = "validate_file_size" =>
        /\ call.raised = "" <=> file._size <= SECR_MAX_UPLOAD_SIZE
        /\ call.raised /= "" =>
               /\ call.raised = "ValidationError"
               /\ Len(call.message) = 4
               /\ call.message[2] = filesizeformat(SECR_MAX_UPLOAD_SIZE)
               /\ call.message[4] = filesizeformat(file._size)

\* C10 witness: a file of exactly the maximum size passed
C10_Witness ==
    /\ call.op = "validate_file_size"
    /\ file._size = SECR_MAX_UPLOAD_SIZE
    /\ file._size > 0
    /\ call.raised = ""

(***************************************************************************)
(* validate_file_extension                                                 *)
(***************************************************************************)
MaxNameLen == 3

NameChars == {".", "/", "t", "T"}

FileNames == SeqUpTo(NameChars, MaxNameLen)

\* the extensions an allowed set is made of
ExtensionChoices == {<<".", "t">>, <<".", "T">>, <<".">>, <<>>}

lower_char(c) == IF c = "T" THEN "t" ELSE c

lower_name(s) == [i \in 1..Len(s) |-> lower_char(s[i])]

\* the last index of c in s, 0 when c is not in s (str.rfind, 1-based)
rfind(s, c) ==
    IF \E i \in 1..Len(s) : s[i] = c
    THEN CHOOSE i \in 1..Len(s) : s[i] = c /\ \A j \in (i + 1)..Len(s) : s[j] /= c
    ELSE 0

\* the extension os.path.splitext gives: from the last dot of the last path
\* component on, unless only dots precede that dot in the component
splitext_ext(p) ==
    LET sepIndex == rfind(p, "/")
        dotIndex == rfind(p, ".")
    IN IF /\ dotIndex > sepIndex
          /\ \E i \in (sepIndex + 1)..(dotIndex - 1) : p[i] /= "."
       THEN SubSeq(p, dotIndex, Len(p))
       ELSE <<>>

ExtensionMessage(ext, valid) ==
    <<"Found an unexpected extension: ", ext, ".  Expected one of ", valid>>

\* validate_file_extension
validate_file_extension_result(f, valid) ==
    LET ext == splitext_ext(f.name) IN
    IF lower_name(ext) \notin valid
    THEN ValidationError(ExtensionMessage(ext, valid))
    ELSE Passed(ext)

validate_file_extension(valid) ==
    /\ request' = Request("validate_file_extension", [valid |-> valid])
    /\ call' = Called("validate_file_extension", [valid |-> valid],
                      validate_file_extension_result(file, valid))
    /\ UNCHANGED <<file, SECR_MAX_UPLOAD_SIZE, magic>>

InitExtension ==
    /\ file \in [name : FileNames, content : {<<>>}, _size : {0}, pos : {0},
                 closed : {FALSE}]
    /\ SECR_MAX_UPLOAD_SIZE = 0
    /\ magic = NoMagic
    /\ request \in {Request("validate_file_extension", [valid |-> v]) :
                        v \in SUBSET ExtensionChoices}
    /\ call = NoCall

NextExtension == call.op = "none" /\ validate_file_extension(request.args.valid)

SpecExtension == InitExtension /\ [][NextExtension]_vars

\* C2: validate_file_extension succeeds exactly when the lower-cased
\* extension of file.name is in the allowed set, then returns the
\* lower-cased extension, and fails with a validation error otherwise.
C2_ExtensionLowerCased ==
    call.op = "validate_file_extension" =>
        LET ext == lower_name(splitext_ext(file.name)) IN
        /\ call.raised = "" <=> ext \in call.args.valid
        /\ call.raised = "" => call.ret = ext
        /\ call.raised /= "" => call.raised = "ValidationError"

(***************************************************************************)
(* validate_mime_type and validate_no_html_frame                           *)
(***************************************************************************)
MaxContentLen == 2

\* what an upload's bytes are made of: the word "virtual", white space,
\* other text, and the frame elements of HTML
ContentTokens == {"virtual", " ", "\n", "x", "<frameset>", "<frame>", "<iframe>"}

Contents == SeqUpTo(ContentTokens, MaxContentLen)

MimeTypes == {"text/plain", "text/x-c++", "text/html"}

Encodings == {"charset=us-ascii", "charset=binary"}

MimePairs == MimeTypes \X Encodings

\* re.search(br'(?m)^virtual\s', raw): "virtual" at the start of a line
\* with white space after it
virtual_line(raw) ==
    \E i \in 1..(Len(raw) - 1) :
        /\ raw[i] = "virtual"
        /\ i = 1 \/ raw[i - 1] = "\n"
        /\ raw[i + 1] \in {" ", "\n"}

\* raw.replace(b'virtual', b' virtual')
RECURSIVE replace_virtual(_)
replace_virtual(raw) ==
    IF raw = <<>> THEN <<>>
    ELSE (IF Head(raw) = "virtual" THEN <<" ", "virtual">> ELSE <<Head(raw)>>)
         \o replace_virtual(Tail(raw))

\* ietf.utils.mime.get_mime_type, a function of the buffer alone: m maps
\* each buffer validate_mime_type can hand it, the file's bytes and their
\* rewritten form, to the (mime_type, encoding) pair the sniffer answers
get_mime_type(m, buffer) == m[buffer]

\* the MIME type and encoding validate_mime_type settles on (lines 66-71)
sniffed(m, raw) ==
    IF get_mime_type(m, raw)[1] = "text/x-c++" /\ virtual_line(raw)
    THEN get_mime_type(m, replace_virtual(raw))
    ELSE get_mime_type(m, raw)

MimeMessage(mime_type, valid) ==
    <<"Found content with unexpected mime type: ", mime_type,
      ".  Expected one of ", valid>>

\* a plausible slip: the test without its `valid and`
validate_mime_type_no_empty_test(raw, valid, m) ==
    IF sniffed(m, raw)[1] \notin valid
    THEN ValidationError(MimeMessage(sniffed(m, raw)[1], valid))
    ELSE Passed(sniffed(m, raw))

\* validate_mime_type after the read (lines 66-75)
validate_mime_type_result(raw, valid, m) ==
    IF valid /= {} /\ sniffed(m, raw)[1] \notin valid
    THEN ValidationError(MimeMessage(sniffed(m, raw)[1], valid))
    ELSE Passed(sniffed(m, raw))

\* a plausible slip: the handle rewound after the read
read_whole_file_rewound(f) ==
    IF file_open(f).error /= ""
    THEN [error |-> file_open(f).error, data |-> <<>>, file |-> f]
    ELSE [error |-> "", data |-> file_read(file_open(f).file).data,
          file |-> file_open(f).file]

\* file.open() followed by file.read() (lines 64-65 and 84-85)
read_whole_file(f) ==
    IF file_open(f).error /= ""
    THEN [error |-> file_open(f).error, data |-> <<>>, file |-> f]
    ELSE [error |-> "", data |-> file_read(file_open(f).file).data,
          file |-> file_read(file_open(f).file).file]

validate_mime_type(valid) ==
    LET r == read_whole_file(file) IN
    /\ request' = Request("validate_mime_type", [valid |-> valid])
    /\ file' = r.file
    /\ call' = Called("validate_mime_type", [valid |-> valid],
                      IF r.error /= "" THEN OtherError(r.error)
                      ELSE validate_mime_type_result(r.data, valid, magic))
    /\ UNCHANGED <<SECR_MAX_UPLOAD_SIZE, magic>>

FrameMessage ==
    <<"Found content with html frames.  Please upload a file that does not use frames">>

\* q(tag) of PyQuery: the elements of that name in the parsed document
pyquery_select(raw, tag) == {i \in 1..Len(raw) : raw[i] = tag}

\* validate_no_html_frame after the read: the parser refuses a document
\* with nothing but white space in it
validate_no_html_frame_result(raw) ==
    IF \A i \in 1..Len(raw) : raw[i] \in {" ", "\n"}
    THEN OtherError("ParserError")
    ELSE IF \/ pyquery_select(raw, "<frameset>") /= {}
            \/ pyquery_select(raw, "<frame>") /= {}
            \/ pyquery_select(raw, "<iframe>") /= {}
    THEN ValidationError(FrameMessage)
    ELSE Passed(None)

validate_no_html_frame ==
    LET r == read_whole_file(file) IN
    /\ request' = Request("validate_no_html_frame", <<>>)
    /\ file' = r.file
    /\ call' = Called("validate_no_html_frame", <<>>,
                      IF r.error /= "" THEN OtherError(r.error)
                      ELSE validate_no_html_frame_result(r.data))
    /\ UNCHANGED <<SECR_MAX_UPLOAD_SIZE, magic>>

\* the sniffers a file can meet: any answer for its bytes and any answer
\* for their rewritten form
MagicFor(content) == [{content, replace_virtual(content)} -> MimePairs]

InitMime ==
    /\ file \in [name : {<<>>}, content : Contents, _size : {0}, pos : {0},
                 closed : {FALSE}]
    /\ SECR_MAX_UPLOAD_SIZE = 0
    /\ magic \in MagicFor(file.content)
    /\ request \in {Request("validate_mime_type", [valid |-> v]) :
                        v \in SUBSET MimeTypes}
    /\ call = NoCall

NextMime == call.op = "none" /\ validate_mime_type(request.args.valid)

SpecMime == InitMime /\ [][NextMime]_vars

\* C3 as stated: for every allowed set, the empty one included,
\* validate_mime_type fails naming the found type and the allowed set when
\* the final MIME type is not in the set, and returns the detected pair
\* when it is.
C3_MimeTypeInAllowedSet ==
    call.op = "validate_mime_type" =>
        LET found == sniffed(magic, file.content) IN
        IF found[1] \notin call.args.valid
        THEN /\ call.raised = "ValidationError"
             /\ call.message = MimeMessage(found[1], call.args.valid)
        ELSE call.raised = "" /\ call.ret = found

\* C3 amended: for every non-empty allowed set the call fails, naming the
\* found type and the allowed set, when the final MIME type is not in the
\* set and returns the detected pair when it is; with an empty allowed set
\* it returns the detected pair whatever the type.
C3_MimeTypeNonEmptyAllowedSet ==
    call.op = "validate_mime_type" =>
        LET found == sniffed(magic, file.content) IN
        IF call.args.valid /= {} /\ found[1] \notin call.args.valid
        THEN /\ call.raised = "ValidationError"
             /\ call.message = MimeMessage(found[1], call.args.valid)
        ELSE call.raised = "" /\ call.ret = found

\* C3 witness: bytes sniffed as C++ with a line starting "virtual" were
\* sniffed again, and the second type, not in the allowed set, was refused
C3_Witness ==
    /\ call.op = "validate_mime_type"
    /\ virtual_line(file.content)
    /\ magic[file.content][1] = "text/x-c++"
    /\ magic[replace_virtual(file.content)][1] = "text/plain"
    /\ call.args.valid = {"text/x-c++"}
    /\ call.raised = "ValidationError"
    /\ call.message[2] = "text/plain"

(***************************************************************************)
(* The four file validators called, in any order and any number of times,  *)
(* on one handle.                                                          *)
(***************************************************************************)
\* the names, sizes and allowed sets the handle is tried with
HandleNames == {<<"T", ".", "T">>, <<"t">>}

HandleSizes == {512, 513}

HandleMimeTypes == {{}, {"text/plain"}}

HandleExtensions == {{}, {<<".", "t">>}}

Init ==
    /\ file \in [name : HandleNames, content : Contents, _size : HandleSizes,
                 pos : 0..MaxContentLen, closed : {FALSE}]
    /\ file.pos \in {0, Len(file.content)}
    /\ SECR_MAX_UPLOAD_SIZE = 512
    /\ magic \in MagicFor(file.content)
    /\ request = Request("none", <<>>)
    /\ call = NoCall

Next ==
    \/ validate_file_size
    \/ \E valid \in HandleMimeTypes : validate_mime_type(valid)
    \/ \E valid \in HandleExtensions : validate_file_extension(valid)
    \/ validate_no_html_frame

Spec == Init /\ [][Next]_vars

\* C7: whatever validator is called on the handle and however the call
\* ends, the handle's content, name and size stay as they were and the
\* handle stays open; only the read position moves, and validate_mime_type
\* and validate_no_html_frame leave it at the end of the content.
C7_HandleOnlyRead ==
    [][/\ file'.content = file.content
       /\ file'.name = file.name
       /\ file'._size = file._size
       /\ file'.closed = file.closed
       /\ call'.op \in {"validate_mime_type", "validate_no_html_frame"} =>
              file'.pos = Len(file.content)
       /\ call'.op \in {"validate_file_size", "validate_file_extension"} =>
              file'.pos = file.pos]_vars

\* C7 witness: validate_mime_type refused the content of a handle and
\* left the handle open, at the end of its content
C7_Witness ==
    /\ call.op = "validate_mime_type"
    /\ call.raised = "ValidationError"
    /\ Len(file.content) > 0
    /\ file.pos = Len(file.content)
    /\ ~file.closed

====
